---- MODULE Spec2Model ----
(***************************************************************************)
(* Deadline propagation middleware (DeadlineProcessMiddleware):            *)
(* resolution of a deadline from message headers, publication of the       *)
(* countdown into the task-local context, and the asyncio.timeout scope    *)
(* around the downstream handler.                                          *)
(*                                                                         *)
(* Tasks run on one event loop: a task keeps the thread until its handler  *)
(* awaits; timer callbacks and other tasks run only while no task runs.    *)
(***************************************************************************)
EXTENDS Integers, Sequences, FiniteSets, TLC

\* ---------------------------------------------------------------- bounds
MaxTime == 3
MaxMsgs == 2
MaxCancels == 1

\* ------------------------------------------------------------ basic values
Tasks == {"t1", "t2"}
NoTask == "none"

None == << >>
Some(v) == << v >>

Keys == {"x-deadline", "x-other"}
DEFAULT_HEADER == "x-deadline"

Digits == << "0", "1", "2", "3", "4", "5", "6", "7", "8", "9" >>
DigitChars == { Digits[i] : i \in 1..Len(Digits) }
DigitValue(c) == (CHOOSE i \in 1..Len(Digits) : Digits[i] = c) - 1

\* a timestamp text "T<d>" for the instant d
Stamp(d) == << "T", Digits[d + 1] >>

\* header values a message can carry: the empty string, malformed texts and
\* timestamps
MalformedValues == { << "x" >>, << "T" >>, << "T", "x" >>, << "1" >> }
HeaderValues == { << >> } \cup MalformedValues \cup { Stamp(d) : d \in 0..MaxTime }

\* default_timeout: float | None
DefaultTimeouts == { None, Some(0), Some(1), Some(2) }

\* outcomes of a call: nothing yet, a returned value, a raised exception
NoOutcome == [kind |-> "none", val |-> "", cause |-> ""]
Return(v) == [kind |-> "return", val |-> v, cause |-> ""]
Raise(e, c) == [kind |-> "raise", val |-> e, cause |-> c]

HandlerResults == { "r1", "r2" }
HandlerErrors == { "ValueError", "TimeoutError" }

DeadlineOccurred(c) == Raise("DeadlineOccurred", c)

\* ------------------------------------------------------------------- state
VARIABLES now, header, default_timeout, running, pc, count, headers,
          deadline, slot, cm, cancelling, must_cancel, calls, warnings,
          hres, outcome

vars == << now, header, default_timeout, running, pc, count, headers,
           deadline, slot, cm, cancelling, must_cancel, calls, warnings,
           hres, outcome >>

\* ---------------------------------------------------------------- resolver
\* datetime.fromisoformat on the model's timestamp texts
fromisoformat(s) ==
    IF Len(s) = 2 /\ s[1] = "T" /\ s[2] \in DigitChars
    THEN [ok |-> TRUE, v |-> DigitValue(s[2])]
    ELSE [ok |-> FALSE, v |-> 0]

\* variant: a missing default budget read as a budget of zero
get_default_deadline_zero(dt, n) ==
    Some(n + (IF dt = None THEN 0 ELSE dt[1]))

get_default_deadline(dt, n) ==
    IF dt = None \/ dt[1] = 0 THEN None ELSE Some(n + dt[1])

\* variant: a timestamp that is not in the future is replaced by the default
get_deadline_from_header_future(header_value, dt, n) ==
    LET r == fromisoformat(header_value)
    IN IF r.ok /\ r.v > n
       THEN [deadline |-> Some(r.v), warnings |-> 0]
       ELSE [deadline |-> get_default_deadline(dt, n), warnings |-> 1]

\* variant: a malformed value gives no deadline instead of the default one
get_deadline_from_header_nofallback(header_value, dt, n) ==
    LET r == fromisoformat(header_value)
    IN IF r.ok
       THEN [deadline |-> Some(r.v), warnings |-> 0]
       ELSE [deadline |-> None, warnings |-> 1]

get_deadline_from_header(header_value, dt, n) ==
    LET r == fromisoformat(header_value)
    IN IF r.ok
       THEN [deadline |-> Some(r.v), warnings |-> 0]
       ELSE [deadline |-> get_default_deadline(dt, n), warnings |-> 1]

headers_get(h, k) == IF k \in DOMAIN h THEN Some(h[k]) ELSE None

\* variant: only a missing header counts, not an empty one
Falsy_missing(hv) == hv = None

\* if not header_value
Falsy(hv) == hv = None \/ Len(hv[1]) = 0

get_deadline(h, k, dt, n) ==
    LET header_value == headers_get(h, k)
    IN IF Falsy(header_value)
       THEN [deadline |-> get_default_deadline(dt, n), warnings |-> 0]
       ELSE get_deadline_from_header(header_value[1], dt, n)

\* --------------------------------------------------------------- countdown
\* _DeadlineCountdown(deadline): the deadline and the message it was built for
Countdown(d, t, n) == [deadline |-> d, msg |-> << t, n >>]
\* countdown(): seconds remaining
remaining(c, n) == c.deadline - n

\* context.set_local / context.get_local on the task's own context
\* variant: one slot shared by all tasks
set_local_shared(s, t, c) == [u \in Tasks |-> Some(c)]

set_local(s, t, c) == [s EXCEPT ![t] = Some(c)]
get_local(s, t) == s[t]

\* ------------------------------------------------------- asyncio.timeout
NoTimeout == [state |-> "CREATED", handler |-> None, cancelling |-> 0]

\* variant: the delay is taken as the absolute time of the timer
aenter_absolute(delay, n, ncancel) ==
    [state |-> "ENTERED", handler |-> Some(delay), cancelling |-> ncancel]

\* Timeout.__aenter__ with when = loop.time() + delay
aenter(delay, n, ncancel) ==
    [state |-> "ENTERED", handler |-> Some(n + delay), cancelling |-> ncancel]

\* Timeout._on_timeout
on_timeout(c) == [c EXCEPT !.state = "EXPIRING", !.handler = None]

\* Task.uncancel
uncancel(k) == IF k > 0 THEN k - 1 ELSE 0

\* variant: the timer handle survives an exit that is not its own firing
aexit_keep_timer(c, k, exc) ==
    IF c.state = "EXPIRING"
    THEN [cm |-> [c EXCEPT !.state = "EXPIRED", !.handler = None],
          cancelling |-> uncancel(k),
          exc |-> IF uncancel(k) <= c.cancelling /\ exc = Raise("CancelledError", "")
                  THEN Raise("TimeoutError", "CancelledError")
                  ELSE exc]
    ELSE [cm |-> [c EXCEPT !.state = "EXITED"],
          cancelling |-> k,
          exc |-> exc]

\* variant: every CancelledError leaving the block becomes a TimeoutError
aexit_any_cancel(c, k, exc) ==
    [cm |-> [c EXCEPT !.state = IF c.state = "EXPIRING" THEN "EXPIRED" ELSE "EXITED",
                      !.handler = None],
     cancelling |-> IF c.state = "EXPIRING" THEN uncancel(k) ELSE k,
     exc |-> IF exc = Raise("CancelledError", "")
             THEN Raise("TimeoutError", "CancelledError")
             ELSE exc]

\* Timeout.__aexit__: the timeout object, the task's cancel count and the
\* exception leaving the block
aexit(c, k, exc) ==
    IF c.state = "EXPIRING"
    THEN [cm |-> [c EXCEPT !.state = "EXPIRED", !.handler = None],
          cancelling |-> uncancel(k),
          exc |-> IF uncancel(k) <= c.cancelling /\ exc = Raise("CancelledError", "")
                  THEN Raise("TimeoutError", "CancelledError")
                  ELSE exc]
    ELSE [cm |-> [c EXCEPT !.state = "EXITED", !.handler = None],
          cancelling |-> k,
          exc |-> exc]

\* variant: the timeout is let through unconverted
except_timeout_missing(exc) == exc

\* except TimeoutError as exc: raise DeadlineOccurred() from exc
except_timeout(exc) ==
    IF exc.kind = "raise" /\ exc.val = "TimeoutError"
    THEN DeadlineOccurred("TimeoutError")
    ELSE exc

\* ------------------------------------------------------------------- init
\* the headers of the messages the broker delivers: the deadline header is
\* absent, empty, malformed, a past instant or a later one
InboundHeaders ==
    UNION { [D -> { << >>, << "x" >>, Stamp(0), Stamp(2) }] :
            D \in SUBSET {DEFAULT_HEADER} }

\* messages consumed so far by all tasks
Consumed(c) == LET S[T \in SUBSET Tasks] ==
                       IF T = {} THEN 0
                       ELSE LET u == CHOOSE x \in T : TRUE
                            IN c[u] + S[T \ {u}]
               IN S[Tasks]

Init ==
    /\ now = 0
    /\ header = DEFAULT_HEADER
    /\ default_timeout \in { None, Some(2) }
    /\ running = NoTask
    /\ pc = [t \in Tasks |-> "idle"]
    /\ count = [t \in Tasks |-> 0]
    /\ headers = [t \in Tasks |-> << >>]
    /\ deadline = [t \in Tasks |-> None]
    /\ slot = [t \in Tasks |-> None]
    /\ cm = [t \in Tasks |-> NoTimeout]
    /\ cancelling = [t \in Tasks |-> 0]
    /\ must_cancel = [t \in Tasks |-> FALSE]
    /\ calls = [t \in Tasks |-> 0]
    /\ warnings = [t \in Tasks |-> 0]
    /\ hres = [t \in Tasks |-> NoOutcome]
    /\ outcome = [t \in Tasks |-> NoOutcome]

\* ---------------------------------------------------------------- actions
\* wall-clock time passes
Tick ==
    /\ now < MaxTime
    /\ now' = now + 1
    /\ UNCHANGED << header, default_timeout, running, pc, count, headers,
                    deadline, slot, cm, cancelling, must_cancel, calls,
                    warnings, hres, outcome >>

\* the broker hands the next message of task t to consume_scope
Start(t) ==
    /\ running = NoTask
    /\ pc[t] \in {"idle", "done"}
    /\ Consumed(count) < MaxMsgs
    /\ \E h \in InboundHeaders : headers' = [headers EXCEPT ![t] = h]
    /\ running' = t
    /\ pc' = [pc EXCEPT ![t] = "resolve"]
    /\ count' = [count EXCEPT ![t] = @ + 1]
    /\ deadline' = [deadline EXCEPT ![t] = None]
    /\ cm' = [cm EXCEPT ![t] = NoTimeout]
    /\ cancelling' = [cancelling EXCEPT ![t] = 0]
    /\ must_cancel' = [must_cancel EXCEPT ![t] = FALSE]
    /\ calls' = [calls EXCEPT ![t] = 0]
    /\ warnings' = [warnings EXCEPT ![t] = 0]
    /\ hres' = [hres EXCEPT ![t] = NoOutcome]
    /\ outcome' = [outcome EXCEPT ![t] = NoOutcome]
    /\ UNCHANGED << now, header, default_timeout, slot >>

\* deadline = self.get_deadline(msg.headers); without one the handler is
\* called directly, otherwise the countdown is built and published
Resolve(t) ==
    /\ running = t
    /\ pc[t] = "resolve"
    /\ LET r == get_deadline(headers[t], header, default_timeout, now)
       IN /\ deadline' = [deadline EXCEPT ![t] = r.deadline]
          /\ warnings' = [warnings EXCEPT ![t] = @ + r.warnings]
          /\ IF r.deadline = None
             THEN /\ pc' = [pc EXCEPT ![t] = "handler"]
                  /\ calls' = [calls EXCEPT ![t] = @ + 1]
                  /\ slot' = slot
             ELSE /\ pc' = [pc EXCEPT ![t] = "preflight"]
                  /\ calls' = calls
                  /\ slot' = set_local(slot, t, Countdown(r.deadline[1], t, count[t]))
    /\ UNCHANGED << now, header, default_timeout, running, count, headers,
                    cm, cancelling, must_cancel, hres, outcome >>

\* variant: a countdown of exactly zero passes the check
expired_strict(c, n) == remaining(c, n) < 0

\* if countdown() <= 0
expired(c, n) == remaining(c, n) <= 0

\* the countdown local of consume_scope for the message of task t
countdown(t) == Countdown(deadline[t][1], t, count[t])

\* variant: an expired scope is entered again instead of failing
Finish_retry(t, o) ==
    IF o = DeadlineOccurred("TimeoutError")
    THEN /\ outcome' = outcome
         /\ pc' = [pc EXCEPT ![t] = "enter"]
         /\ running' = t
    ELSE /\ outcome' = [outcome EXCEPT ![t] = o]
         /\ pc' = [pc EXCEPT ![t] = "done"]
         /\ running' = NoTask

\* consume_scope ends with outcome o and the task gives the thread back
Finish(t, o) ==
    /\ outcome' = [outcome EXCEPT ![t] = o]
    /\ pc' = [pc EXCEPT ![t] = "done"]
    /\ running' = NoTask

\* if countdown() <= 0: raise DeadlineOccurred()
PreFlight(t) ==
    /\ running = t
    /\ pc[t] = "preflight"
    /\ IF expired(countdown(t), now)
       THEN Finish(t, DeadlineOccurred(""))
       ELSE /\ pc' = [pc EXCEPT ![t] = "enter"]
            /\ UNCHANGED << outcome, running >>
    /\ UNCHANGED << now, header, default_timeout, count, headers, deadline,
                    slot, cm, cancelling, must_cancel, calls, warnings, hres >>

\* async with asyncio.timeout(countdown()): the scope is entered, the timer
\* armed, and call_next(msg) starts
EnterScope(t) ==
    /\ running = t
    /\ pc[t] = "enter"
    /\ cm' = [cm EXCEPT ![t] = aenter(remaining(countdown(t), now), now, cancelling[t])]
    /\ pc' = [pc EXCEPT ![t] = "handler"]
    /\ calls' = [calls EXCEPT ![t] = @ + 1]
    /\ UNCHANGED << now, header, default_timeout, running, count, headers,
                    deadline, slot, cancelling, must_cancel, warnings, hres,
                    outcome >>

\* the handler reaches an await and gives the thread back
HandlerSuspend(t) ==
    /\ running = t
    /\ pc[t] = "handler"
    /\ pc' = [pc EXCEPT ![t] = "suspended"]
    /\ running' = NoTask
    /\ UNCHANGED << now, header, default_timeout, count, headers, deadline,
                    slot, cm, cancelling, must_cancel, calls, warnings, hres,
                    outcome >>

\* the handler's outcome o leaves consume_scope: directly on the path without
\* a deadline, through __aexit__ and the except clause on the bounded path
Unwind(t, o) ==
    /\ hres' = [hres EXCEPT ![t] = o]
    /\ IF cm[t].state = "CREATED"
       THEN /\ Finish(t, o)
            /\ UNCHANGED << cm, cancelling >>
       ELSE LET x == aexit(cm[t], cancelling[t], o)
            IN /\ cm' = [cm EXCEPT ![t] = x.cm]
               /\ cancelling' = [cancelling EXCEPT ![t] = x.cancelling]
               /\ Finish(t, except_timeout(x.exc))

\* the loop resumes the handler; a pending cancellation is thrown into it as
\* CancelledError, which the handler lets through or catches
HandlerResume(t) ==
    /\ running = NoTask
    /\ pc[t] = "suspended"
    /\ must_cancel' = [must_cancel EXCEPT ![t] = FALSE]
    /\ \/ /\ must_cancel[t]
          /\ Unwind(t, Raise("CancelledError", ""))
       \/ /\ running' = t
          /\ pc' = [pc EXCEPT ![t] = "handler"]
          /\ UNCHANGED << hres, outcome, cm, cancelling >>
    /\ UNCHANGED << now, header, default_timeout, count, headers, deadline,
                    slot, calls, warnings >>

\* the handler returns a value
HandlerReturn(t) ==
    /\ running = t
    /\ pc[t] = "handler"
    /\ \E v \in HandlerResults : Unwind(t, Return(v))
    /\ UNCHANGED << now, header, default_timeout, count, headers, deadline,
                    slot, must_cancel, calls, warnings >>

\* the handler raises a failure of its own
HandlerRaise(t) ==
    /\ running = t
    /\ pc[t] = "handler"
    /\ \E e \in HandlerErrors : Unwind(t, Raise(e, ""))
    /\ UNCHANGED << now, header, default_timeout, count, headers, deadline,
                    slot, must_cancel, calls, warnings >>

\* variant: the timer callback marks the scope expired without cancelling
TimerFire_nocancel(t) ==
    /\ running = NoTask
    /\ cm[t].handler # None
    /\ cm[t].handler[1] <= now
    /\ cm' = [cm EXCEPT ![t] = on_timeout(@)]
    /\ UNCHANGED << now, header, default_timeout, running, pc, count, headers,
                    deadline, slot, calls, warnings, hres, outcome,
                    cancelling, must_cancel >>

\* variant: the timer callback runs whatever the thread is doing
TimerFire_preemptive(t) ==
    /\ cm[t].handler # None
    /\ cm[t].handler[1] <= now
    /\ cm' = [cm EXCEPT ![t] = on_timeout(@)]
    /\ cancelling' = [cancelling EXCEPT ![t] = @ + 1]
    /\ must_cancel' = [must_cancel EXCEPT ![t] = TRUE]
    /\ UNCHANGED << now, header, default_timeout, running, pc, count, headers,
                    deadline, slot, calls, warnings, hres, outcome >>

\* the loop runs the due timer callback of task t's timeout scope
TimerFire(t) ==
    /\ running = NoTask
    /\ cm[t].handler # None
    /\ cm[t].handler[1] <= now
    /\ cm' = [cm EXCEPT ![t] = on_timeout(@)]
    /\ cancelling' = [cancelling EXCEPT ![t] = @ + 1]
    /\ must_cancel' = [must_cancel EXCEPT ![t] = TRUE]
    /\ UNCHANGED << now, header, default_timeout, running, pc, count, headers,
                    deadline, slot, calls, warnings, hres, outcome >>

\* other code cancels the task while its handler is suspended
ExternalCancel(t) ==
    /\ running # t
    /\ pc[t] = "suspended"
    /\ cancelling[t] < MaxCancels
    /\ cancelling' = [cancelling EXCEPT ![t] = @ + 1]
    /\ must_cancel' = [must_cancel EXCEPT ![t] = TRUE]
    /\ UNCHANGED << now, header, default_timeout, running, pc, count, headers,
                    deadline, slot, cm, calls, warnings, hres, outcome >>

Next ==
    \/ Tick
    \/ \E t \in Tasks : Start(t)
    \/ \E t \in Tasks : Resolve(t)
    \/ \E t \in Tasks : PreFlight(t)
    \/ \E t \in Tasks : EnterScope(t)
    \/ \E t \in Tasks : HandlerSuspend(t)
    \/ \E t \in Tasks : HandlerResume(t)
    \/ \E t \in Tasks : HandlerReturn(t)
    \/ \E t \in Tasks : HandlerRaise(t)
    \/ \E t \in Tasks : TimerFire(t)
    \/ \E t \in Tasks : ExternalCancel(t)

Spec == Init /\ [][Next]_vars

\* the resolver alone: every configuration, instant and header mapping
ResolverHeaders == UNION { [D -> HeaderValues] : D \in SUBSET Keys }

InitResolver ==
    /\ now \in 0..MaxTime
    /\ header \in Keys
    /\ default_timeout \in DefaultTimeouts
    /\ running \in Tasks
    /\ pc = [t \in Tasks |-> IF t = running THEN "resolve" ELSE "idle"]
    /\ count = [t \in Tasks |-> IF t = running THEN 1 ELSE 0]
    /\ \E h \in ResolverHeaders :
          headers = [t \in Tasks |-> IF t = running THEN h ELSE << >>]
    /\ deadline = [t \in Tasks |-> None]
    /\ slot = [t \in Tasks |-> None]
    /\ cm = [t \in Tasks |-> NoTimeout]
    /\ cancelling = [t \in Tasks |-> 0]
    /\ must_cancel = [t \in Tasks |-> FALSE]
    /\ calls = [t \in Tasks |-> 0]
    /\ warnings = [t \in Tasks |-> 0]
    /\ hres = [t \in Tasks |-> NoOutcome]
    /\ outcome = [t \in Tasks |-> NoOutcome]

NextResolver == \E t \in Tasks : Resolve(t)

SpecResolver == InitResolver /\ [][NextResolver]_vars

\* a handler catches the CancelledError thrown into it and runs on
Suppresses(t) == must_cancel[t] /\ pc[t] = "suspended" /\ pc'[t] = "handler"

\* the handler of task t is resumed with a pending cancellation and lets the
\* CancelledError through
CancelDelivery(t) == must_cancel[t] /\ HandlerResume(t) /\ ~Suppresses(t)

\* the handler of task t runs on: it awaits, returns or raises
HandlerProgress(t) == HandlerSuspend(t) \/ HandlerReturn(t) \/ HandlerRaise(t)

\* the event loop with its scheduling: time passes, a task that holds the
\* thread executes its next statement, a due timer callback and a cancelled
\* task get their turn whenever the thread is free again and again; a running
\* handler eventually awaits or finishes
Fairness ==
    /\ WF_vars(Tick)
    /\ \A t \in Tasks :
          /\ WF_vars(Resolve(t))
          /\ WF_vars(PreFlight(t))
          /\ WF_vars(EnterScope(t))
          /\ WF_vars(HandlerProgress(t))
          /\ SF_vars(TimerFire(t))
          /\ SF_vars(CancelDelivery(t))

\* task t starts on a further message after its first
NextMessage(t) == pc[t] = "done" /\ pc'[t] = "resolve"

\* the steps of the program with handlers that never suppress a cancellation,
\* each task followed through the message it consumes
NextLive == Next /\ \A t \in Tasks : ~Suppresses(t) /\ ~NextMessage(t)

\* a middleware configured with a default budget: every message gets a
\* deadline
InitLive == Init /\ default_timeout = Some(2)

SpecLive == InitLive /\ [][NextLive]_vars /\ Fairness

\* ------------------------------------------------------------- properties
\* the value of the configured header on the message of task t
HeaderValue(t) == headers_get(headers[t], header)
Parses(t) == HeaderValue(t) # None /\ fromisoformat(HeaderValue(t)[1]).ok
Malformed(t) == /\ ~Falsy(HeaderValue(t))
                /\ ~fromisoformat(HeaderValue(t)[1]).ok
Resolved(t) == pc[t] \notin {"idle", "resolve"}
InFlight(t) == pc[t] \in {"handler", "suspended"}
\* the headers of task t's message without the configured key
WithoutHeader(t) ==
    [k \in (DOMAIN headers[t]) \ {header} |-> headers[t][k]]

\* C1: a message whose header parses to an instant that is already past
\* before the pre-flight check never has its handler called, and its
\* consume_scope can only end with DeadlineOccurred.
C1_PastDeadlineNeverRuns ==
    [][\A t \in Tasks :
         (pc[t] \in {"resolve", "preflight"} /\ Parses(t)
            /\ fromisoformat(HeaderValue(t)[1]).v <= now)
         => /\ calls'[t] = 0
            /\ pc'[t] \in {"resolve", "preflight", "done"}
            /\ (pc'[t] = "done" => outcome'[t] = DeadlineOccurred(""))]_vars

C1_Witness ==
    \E t \in Tasks :
       /\ pc[t] = "done"
       /\ HeaderValue(t) = Some(Stamp(0))
       /\ calls[t] = 0
       /\ outcome[t] = DeadlineOccurred("")

\* C2: a failure the handler raises on its own before the timer fires
\* (TimeoutError included) leaves consume_scope unchanged, on the path
\* without a deadline and on the bounded path.
C2_HandlerFailureUnchanged ==
    \A t \in Tasks :
       (/\ pc[t] = "done"
        /\ hres[t].kind = "raise"
        /\ hres[t].val \in HandlerErrors
        /\ cm[t].state \in {"CREATED", "EXITED"})
       => outcome[t] = hres[t]

C4_NoDeadlineDelegates ==
    \A t \in Tasks :
       (Resolved(t) /\ HeaderValue(t) = None /\ default_timeout = None)
       => /\ calls[t] = 1
          /\ cm[t] = NoTimeout
          /\ (pc[t] = "done" => (hres[t] # NoOutcome /\ outcome[t] = hres[t]))

C4_Witness ==
    \E t \in Tasks :
       /\ pc[t] = "done"
       /\ HeaderValue(t) = None
       /\ default_timeout = None
       /\ now = MaxTime
       /\ calls[t] = 1
       /\ outcome[t] = Return("r1")

\* C5: while the handler of a message runs and after the message is done,
\* the slot of its task holds that message's own countdown or nothing.
C5_SlotOwnOrNothing ==
    \A t \in Tasks :
       pc[t] \in {"handler", "suspended", "done"}
       => \/ get_local(slot, t) = None
          \/ get_local(slot, t)[1].msg = << t, count[t] >>

\* C6: a task's slot never holds a countdown built by another task, and the
\* handler of a message with a deadline reads the countdown built from that
\* message's own deadline.
C6_TaskIsolation ==
    \A t \in Tasks :
       /\ get_local(slot, t) # None => get_local(slot, t)[1].msg[1] = t
       /\ (InFlight(t) /\ deadline[t] # None)
          => get_local(slot, t) = Some(Countdown(deadline[t][1], t, count[t]))

C6_Witness ==
    \E t, u \in Tasks :
       /\ t # u
       /\ pc[t] = "suspended"
       /\ pc[u] = "handler"
       /\ deadline[t] # None
       /\ deadline[u] # None
       /\ deadline[t] # deadline[u]
       /\ get_local(slot, u)[1].deadline = deadline[u][1]

\* C7: a non-empty header value that does not parse gives one warning, lets
\* the message go on, and resolves to what the same configuration resolves
\* for the message without the header.
C7_MalformedFallsBack ==
    \A t \in Tasks :
       (Resolved(t) /\ Malformed(t))
       => /\ warnings[t] = 1
          /\ pc[t] \in {"preflight", "handler"}
          /\ outcome[t] = NoOutcome
          /\ deadline[t] =
                get_deadline(WithoutHeader(t), header, default_timeout, now).deadline

C7_Witness ==
    \E t \in Tasks :
       /\ pc[t] = "preflight"
       /\ HeaderValue(t) = Some(<< "T", "x" >>)
       /\ warnings[t] = 1
       /\ default_timeout = Some(2)
       /\ deadline[t] = Some(now + 2)

\* C8: with the header absent or empty the resolver returns now + default
\* budget for every configured budget, and nothing only without one.
C8_DefaultBudgetPolicy ==
    \A t \in Tasks :
       (Resolved(t) /\ Falsy(HeaderValue(t)))
       => deadline[t] = IF default_timeout = None
                        THEN None
                        ELSE Some(now + default_timeout[1])

\* C9: the handler is never started by a scope entered with a remaining
\* time of zero or less.
C9_NeverStartsExpired ==
    [][\A t \in Tasks :
         (pc[t] = "enter" /\ pc'[t] = "handler")
         => remaining(countdown(t), now) > 0]_vars

\* C10: once consume_scope is done the timer is disarmed, nothing fires it or
\* requests cancellation afterwards, and a result the handler returned before
\* the timer fired is the result of consume_scope.
C10_TimerDisarmedOnExit ==
    [][\A t \in Tasks :
         pc'[t] = "done"
         => /\ cm'[t].handler = None
            /\ (cm'[t].state = "EXITED" /\ hres'[t].kind = "return")
               => outcome'[t] = hres'[t]
            /\ pc[t] = "done"
               => /\ cm'[t] = cm[t]
                  /\ cancelling'[t] = cancelling[t]
                  /\ must_cancel'[t] = must_cancel[t]]_vars

C10_Witness ==
    \E t \in Tasks :
       /\ pc[t] = "done"
       /\ cm[t].state = "EXITED"
       /\ deadline[t] # None
       /\ deadline[t][1] <= now
       /\ hres[t] = Return("r2")
       /\ outcome[t] = Return("r2")

\* C11: a message takes one path: the handler is called at most once, the
\* countdown is published only by the resolve step, a finished message is
\* either delegated, failed pre-flight, or left its scope exactly once, and
\* after the timer has fired it is never armed again nor the handler called
\* again; the outcome of a finished message no longer changes.
C11_OnePathPerMessage ==
    [][\A t \in Tasks :
         /\ calls'[t] <= 1
         /\ slot'[t] # slot[t] => (pc[t] = "resolve" /\ deadline'[t] # None)
         /\ cm[t].state \in {"EXPIRING", "EXPIRED"} /\ pc'[t] # "resolve"
            => (cm'[t].handler = None /\ calls'[t] = calls[t]
                /\ cm'[t].state \in {"EXPIRING", "EXPIRED"})
         /\ pc'[t] = "done"
            => /\ outcome'[t] # NoOutcome
               /\ \/ /\ deadline'[t] = None
                     /\ cm'[t].state = "CREATED"
                     /\ calls'[t] = 1
                  \/ /\ deadline'[t] # None
                     /\ cm'[t].state = "CREATED"
                     /\ calls'[t] = 0
                     /\ outcome'[t] = DeadlineOccurred("")
                  \/ /\ deadline'[t] # None
                     /\ cm'[t].state \in {"EXITED", "EXPIRED"}
                     /\ calls'[t] = 1
         /\ (pc[t] = "done" /\ pc'[t] = "done") => outcome'[t] = outcome[t]]_vars

C11_Witness ==
    \E t \in Tasks :
       /\ pc[t] = "done"
       /\ deadline[t] # None
       /\ cm[t] = [state |-> "EXPIRED", handler |-> None, cancelling |-> 0]
       /\ calls[t] = 1
       /\ outcome[t] = DeadlineOccurred("TimeoutError")
       /\ now > deadline[t][1]

\* C12: an armed timer is set to the deadline of its message (the bound is
\* the remaining time at scope entry), and the timer requests cancellation
\* only when the current time has reached that deadline.
C12_TimerFiresAtDeadline ==
    [][\A t \in Tasks :
         /\ cm'[t].handler # None
            => (deadline'[t] # None /\ cm'[t].handler = deadline'[t])
         /\ (cm[t].state = "ENTERED" /\ cm'[t].state = "EXPIRING")
            => (now >= deadline[t][1] /\ cancelling'[t] = cancelling[t] + 1)]_vars

C12_Witness ==
    \E t \in Tasks :
       /\ pc[t] = "suspended"
       /\ cm[t].state = "EXPIRING"
       /\ deadline[t] = Some(2)
       /\ now = 2
       /\ must_cancel[t]

\* C13: the timer callback runs only while no task holds the thread and the
\* handler is suspended; a running handler is never cancelled between two
\* suspension points: while it runs nothing changes its timeout scope or its
\* cancellation state, and CancelledError reaches it only on resumption.
C13_CooperativeCancellation ==
    [][\A t \in Tasks :
         /\ (cm[t].state = "ENTERED" /\ cm'[t].state = "EXPIRING")
            => (running = NoTask /\ pc[t] = "suspended" /\ pc'[t] = "suspended")
         /\ (pc[t] = "handler" /\ pc'[t] \in {"handler", "suspended"})
            => (cm'[t] = cm[t] /\ cancelling'[t] = cancelling[t]
                /\ must_cancel'[t] = must_cancel[t])
         /\ (pc[t] = "handler" /\ pc'[t] = "done")
            => hres'[t] # Raise("CancelledError", "")
         /\ (pc[t] # "done" /\ pc'[t] = "done"
               /\ hres'[t] = Raise("CancelledError", ""))
            => (pc[t] = "suspended" /\ must_cancel[t])]_vars

C13_Witness ==
    \E t \in Tasks :
       /\ pc[t] = "handler"
       /\ running = t
       /\ cm[t].state = "ENTERED"
       /\ cm[t].handler # None
       /\ cm[t].handler[1] < now

\* C14: with handlers that eventually await or finish and never suppress a
\* cancellation, every message with a deadline within the clock's horizon
\* that is being processed eventually has its consume_scope finished.
C14_BoundedEventuallyDone ==
    \A t \in Tasks :
       (/\ deadline[t] # None
        /\ deadline[t][1] <= MaxTime
        /\ pc[t] \in {"preflight", "enter", "handler", "suspended"})
       ~> (pc[t] = "done")

C14_Witness ==
    \E t \in Tasks :
       /\ pc[t] = "done"
       /\ deadline[t] # None
       /\ deadline[t][1] <= MaxTime
       /\ cm[t].state = "EXPIRED"
       /\ cancelling[t] = 0
       /\ hres[t] = Raise("CancelledError", "")
       /\ outcome[t].val = "DeadlineOccurred"

\* C15: a header that maps the configured key to the empty string resolves
\* to the same deadline, with the same (zero) warnings, as the same headers
\* without the key.
C15_EmptyLikeMissing ==
    \A t \in Tasks :
       (Resolved(t) /\ HeaderValue(t) = Some(<< >>))
       => LET r == get_deadline(WithoutHeader(t), header, default_timeout, now)
          IN /\ headers_get(WithoutHeader(t), header) = None
             /\ deadline[t] = r.deadline
             /\ warnings[t] = r.warnings
             /\ warnings[t] = 0

C15_Witness ==
    \E t \in Tasks :
       /\ pc[t] = "preflight"
       /\ HeaderValue(t) = Some(<< >>)
       /\ default_timeout = Some(1)
       /\ deadline[t] = Some(now + 1)
       /\ warnings[t] = 0

\* C16: a header value that is the text of an instant resolves to exactly
\* that instant, past or future, under every default budget, without a
\* warning, and the message goes on to the pre-flight check.
C16_ParsedVerbatim ==
    \A t \in Tasks : \A d \in 0..MaxTime :
       (Resolved(t) /\ HeaderValue(t) = Some(Stamp(d)))
       => /\ deadline[t] = Some(d)
          /\ warnings[t] = 0
          /\ pc[t] = "preflight"
          /\ outcome[t] = NoOutcome

C16_Witness ==
    \E t \in Tasks :
       /\ pc[t] = "preflight"
       /\ HeaderValue(t) = Some(Stamp(1))
       /\ now = 2
       /\ default_timeout = Some(2)
       /\ deadline[t] = Some(1)

\* C18: every message that falls back to a configured default budget gets
\* the deadline (instant of its own resolution + budget).
C18_DefaultPerMessage ==
    \A t \in Tasks :
       (/\ Resolved(t)
        /\ (Falsy(HeaderValue(t)) \/ Malformed(t))
        /\ default_timeout # None)
       => deadline[t] = Some(now + default_timeout[1])

\* C19: a CancelledError that leaves the handler before the timer has fired,
\* or while a cancellation requested from outside is still counted on the
\* task, leaves consume_scope as CancelledError, not as DeadlineOccurred.
C19_OutsideCancelPropagates ==
    \A t \in Tasks :
       (/\ pc[t] = "done"
        /\ hres[t] = Raise("CancelledError", "")
        /\ (cm[t].state \in {"CREATED", "EXITED"} \/ cancelling[t] > 0))
       => outcome[t] = Raise("CancelledError", "")

C19_Witness ==
    \E t \in Tasks :
       /\ pc[t] = "done"
       /\ cm[t].state = "EXITED"
       /\ deadline[t] # None
       /\ now < deadline[t][1]
       /\ cancelling[t] = 1
       /\ outcome[t] = Raise("CancelledError", "")

====
